---- MODULE Spec2Model ----
(***************************************************************************)
(* Model of the Telegram webhook worker (the Hono app): the auto-init      *)
(* middleware, POST /webhook, GET /set-webhook, GET /, the cold-start      *)
(* initializer configureWebhook, the background sendMessage tasks and the  *)
(* provider's webhook registration they act on.                            *)
(*                                                                         *)
(* Strings whose content the code inspects (BASE_URL, AUTO_WEBHOOK_INIT,   *)
(* the sender's names, the greeting) are sequences of one-character        *)
(* strings.  Strings the code only compares (the secret, the header) are   *)
(* TLA+ strings.  An optional value is <<>> (undefined) or <<v>>.          *)
(***************************************************************************)
EXTENDS Integers, Sequences, FiniteSets, Bags, TLC

VARIABLES
  env,                 \* Bindings: WEBHOOK_SECRET_TOKEN, BASE_URL, AUTO_WEBHOOK_INIT
  webhookInitPromise,  \* the module-level latch: "null" or "promise"
  initPc,              \* position of configureWebhook
  initRuns,            \* how many times configureWebhook has been entered
  initTrace,           \* the provider calls of configureWebhook, in order
  registration,        \* the provider's webhook registration
  inflight,            \* bag of the requests whose handler is at an await
  sends,               \* bag of background sendMessage calls in flight
  sendLog,             \* the outcome logged by the step just taken, if it ended a send
  last,                \* the response sent by the step just taken, if it sent one
  gUser,               \* buildGreeting: the argument
  gOut,                \* buildGreeting: the result
  setOkAnswered        \* GET /set-webhook has answered {ok: true} in this process

vars == <<env, webhookInitPromise, initPc, initRuns, initTrace, registration,
          inflight, sends, sendLog, last, gUser, gOut, setOkAnswered>>

----------------------------------------------------------------------------
(* Bounds *)

MaxRequests == 2     \* requests at an await at once
MaxSends == 1        \* background sends in flight at once
MaxInitRuns == 2     \* cap of the initRuns counter
MaxLen == 2          \* length of a sender's name

----------------------------------------------------------------------------
(* Optional values and strings *)

None == <<>>
Some(v) == <<v>>
IsSome(o) == o # None
Val(o) == o[1]

\* JavaScript truthiness of an optional TLA+ string / of an optional character sequence
TruthyStr(o) == IsSome(o) /\ Val(o) # ""
TruthySeq(o) == IsSome(o) /\ Val(o) # <<>>

RECURSIVE SeqsUpTo(_, _)
SeqsUpTo(S, n) ==
  IF n = 0 THEN {<<>>}
  ELSE LET shorter == SeqsUpTo(S, n - 1)
       IN shorter \cup {Append(s, c) : s \in shorter, c \in S}

\* String.prototype.toLowerCase on the characters the model uses
LowerChar(c) ==
  CASE c = "T" -> "t"
    [] c = "R" -> "r"
    [] c = "U" -> "u"
    [] c = "E" -> "e"
    [] OTHER -> c

toLowerCase(s) == [i \in 1..Len(s) |-> LowerChar(s[i])]

\* s.replace(/\/$/, ''): drops one trailing slash
StripTrailingSlash(s) ==
  IF Len(s) > 0 /\ s[Len(s)] = "/" THEN SubSeq(s, 1, Len(s) - 1) ELSE s

IsSpace(c) == c = " "

RECURSIVE TrimLeft(_)
TrimLeft(s) == IF s # <<>> /\ IsSpace(Head(s)) THEN TrimLeft(Tail(s)) ELSE s

RECURSIVE TrimRight(_)
TrimRight(s) ==
  IF s # <<>> /\ IsSpace(s[Len(s)]) THEN TrimRight(SubSeq(s, 1, Len(s) - 1)) ELSE s

\* String.prototype.trim
Trim(s) == TrimRight(TrimLeft(s))

\* Array.prototype.join(' ')
RECURSIVE JoinSpace(_)
JoinSpace(parts) ==
  IF parts = <<>> THEN <<>>
  ELSE IF Len(parts) = 1 THEN parts[1]
  ELSE parts[1] \o <<" ">> \o JoinSpace(Tail(parts))

HelloPrefix == <<"H", "e", "l", "l", "o", " ">>
HelloThere == HelloPrefix \o <<"t", "h", "e", "r", "e">>

----------------------------------------------------------------------------
(* buildGreeting *)

GreetingParts(u) ==
  (IF TruthySeq(u.username) THEN << <<"@">> \o Val(u.username) >> ELSE <<>>)
  \o (IF TruthySeq(u.first_name) THEN << Val(u.first_name) >> ELSE <<>>)
  \o (IF TruthySeq(u.last_name) THEN << Val(u.last_name) >> ELSE <<>>)

\* the same with last name and first name swapped
buildGreeting_swapped(user) ==
  IF ~IsSome(user) THEN HelloThere
  ELSE LET u == Val(user)
           parts == (IF TruthySeq(u.username) THEN << <<"@">> \o Val(u.username) >> ELSE <<>>)
                    \o (IF TruthySeq(u.last_name) THEN << Val(u.last_name) >> ELSE <<>>)
                    \o (IF TruthySeq(u.first_name) THEN << Val(u.first_name) >> ELSE <<>>)
           info == Trim(JoinSpace(parts))
       IN IF info # <<>> THEN HelloPrefix \o info ELSE HelloThere

buildGreeting(user) ==
  IF ~IsSome(user) THEN HelloThere
  ELSE LET info == Trim(JoinSpace(GreetingParts(Val(user))))
       IN IF info # <<>> THEN HelloPrefix \o info ELSE HelloThere

----------------------------------------------------------------------------
(* Configuration and inputs *)

TrueLiteral == <<"t", "r", "u", "e">>
WebhookPath == <<"/", "w", "e", "b", "h", "o", "o", "k">>
MaxConnections == 40
AllowedUpdates == <<"message", "edited_message">>

Secrets == {None, Some(""), Some("S1")}
BaseUrls == {None, Some(<<>>), Some(<<"/">>), Some(<<"w">>), Some(<<"w", "/">>)}
AutoFlags == {None, Some(TrueLiteral), Some(<<"T", "r", "U", "E">>),
              Some(<<"f", "a", "l", "s", "e">>)}
\* every secret with one base URL, and every base URL and flag with one secret
Envs == {e \in [secret : Secrets, baseUrl : BaseUrls, autoInit : AutoFlags] :
           \/ e.secret = Some("S1")
           \/ e.baseUrl = Some(<<"w", "/">>) /\ e.autoInit = None}

Headers == {None, Some("S1"), Some("wrong")}

Bob == [username |-> Some(<<"b">>), first_name |-> Some(<<"B">>), last_name |-> None]
Msg(chat, from) == [chat |-> chat, from |-> from]
Chat(id) == Some([id |-> id])
Upd(message, edited) == [kind |-> "object", message |-> message, edited_message |-> edited]

\* what c.req.json() can find in the body
InvalidJson == [kind |-> "invalid"]
JsonNull == [kind |-> "null"]
JsonNumber == [kind |-> "number"]
Updates ==
  {Upd(None, None),
   Upd(Some(Msg(None, None)), None),
   Upd(Some(Msg(None, None)), Some(Msg(Chat(3), None))),
   Upd(Some(Msg(Chat(2), Some(Bob))), None),
   Upd(Some(Msg(Chat(2), Some(Bob))), Some(Msg(Chat(3), None))),
   Upd(None, Some(Msg(Chat(3), None)))}
Bodies == {InvalidJson, JsonNull, JsonNumber} \cup Updates
Unread == [kind |-> "unread"]

\* a registration left by an earlier deployment
OldRegistration ==
  [url |-> <<"o">> \o WebhookPath, secret_token |-> None,
   max_connections |-> MaxConnections, allowed_updates |-> AllowedUpdates]

\* what a provider call can come back with: an HTTP status and the "ok" of its JSON,
\* or nothing readable (fetch throws, or the body is not JSON)
ProviderOk == [status |-> 200, ok |-> TRUE]
ProviderReplies == {ProviderOk, [status |-> 400, ok |-> FALSE]}
Threw == [status |-> 0, ok |-> FALSE]
Outcomes == ProviderReplies \cup {Threw}
Succeeded(r) == r.status = 200 /\ r.ok

Users == {None} \cup
  {Some([username |-> u, first_name |-> f, last_name |-> l]) :
     u \in {None} \cup {Some(s) : s \in SeqsUpTo({"a", " "}, MaxLen)},
     f \in {None} \cup {Some(s) : s \in SeqsUpTo({"B", " "}, MaxLen)},
     l \in {None} \cup {Some(s) : s \in SeqsUpTo({"C", " "}, MaxLen)}}

----------------------------------------------------------------------------
(* The auto-init middleware and configureWebhook *)

AutoInitEnabled(flag) ==
  toLowerCase(IF TruthySeq(flag) THEN Val(flag) ELSE <<>>) = TrueLiteral

\* the latch ignored
ShouldStartInit_nolatch(flag, latch) == AutoInitEnabled(flag)

ShouldStartInit(flag, latch) == AutoInitEnabled(flag) /\ latch = "null"

MwStarts == ShouldStartInit(env.autoInit, webhookInitPromise) /\ initRuns < MaxInitRuns

DeleteCall == [method |-> "deleteWebhook", arg |-> [drop_pending_updates |-> TRUE]]

\* the calls the middleware issues before it returns next(): configureWebhook runs
\* to its first await, the deleteWebhook fetch
MwCalls == IF MwStarts THEN <<DeleteCall>> ELSE <<>>

Middleware ==
  IF MwStarts
  THEN /\ webhookInitPromise' = "promise"
       /\ initPc' = "del_sent"
       /\ initRuns' = initRuns + 1
       /\ initTrace' = Append(initTrace, <<"deleteWebhook", "issued">>)
  ELSE UNCHANGED <<webhookInitPromise, initPc, initRuns, initTrace>>

InitBaseUrl(e) == IF IsSome(e.baseUrl) THEN Some(StripTrailingSlash(Val(e.baseUrl))) ELSE None

InitSetRequest(e) ==
  [url |-> Val(InitBaseUrl(e)) \o WebhookPath, secret_token |-> e.secret,
   max_connections |-> MaxConnections, allowed_updates |-> AllowedUpdates]

OutcomeTag(r) ==
  IF r = Threw THEN "threw" ELSE IF Succeeded(r) THEN "ok" ELSE "failed"

\* a call that came back with the provider's answer had its effect exactly when the
\* answer is a success; a call that threw was lost on the way there or on the way back
EffectPossible(r, applied) == IF r = Threw THEN TRUE ELSE applied = Succeeded(r)

\* setWebhook given up after a deleteWebhook that did not succeed
NextAfterDelete_giveup(e, delTag) ==
  IF delTag # "ok" \/ ~TruthySeq(InitBaseUrl(e)) THEN "done" ELSE "set_sent"

\* configureWebhook after the deleteWebhook try/catch: return, or issue setWebhook
NextAfterDelete(e, delTag) ==
  IF ~TruthySeq(InitBaseUrl(e)) THEN "done" ELSE "set_sent"

\* the provider handles deleteWebhook, or the call is lost; configureWebhook resumes
\* with the outcome, logs it, and returns or issues setWebhook
InitDeleteCompletes(r, applied) ==
  /\ initPc = "del_sent"
  /\ EffectPossible(r, applied)
  /\ registration' = IF applied THEN None ELSE registration
  /\ initPc' = NextAfterDelete(env, OutcomeTag(r))
  /\ initTrace' = initTrace \o <<<<"deleteWebhook", OutcomeTag(r)>>,
                                 <<"setWebhook",
                                   IF initPc' = "set_sent" THEN "issued" ELSE "skipped">>>>
  /\ UNCHANGED <<env, webhookInitPromise, initRuns, inflight, sends, gUser, gOut, setOkAnswered>>
  /\ last' = None
  /\ sendLog' = None

\* the provider handles the initializer's setWebhook, or the call is lost;
\* configureWebhook resumes with the outcome, logs it, and its promise resolves
InitSetCompletes(r, applied) ==
  /\ initPc = "set_sent"
  /\ EffectPossible(r, applied)
  /\ registration' = IF applied THEN Some(InitSetRequest(env)) ELSE registration
  /\ initPc' = "done"
  /\ initTrace' = Append(initTrace, <<"setWebhook", OutcomeTag(r)>>)
  /\ UNCHANGED <<env, webhookInitPromise, initRuns, inflight, sends, gUser, gOut, setOkAnswered>>
  /\ last' = None
  /\ sendLog' = None

----------------------------------------------------------------------------
(* Requests *)

\* a request can reach an await only while fewer than MaxRequests are at one
Room == BagCardinality(inflight) < MaxRequests

\* a response, with the request it answers and what handling it did: whether
\* c.req.json() was called, the calls the middleware and the handler issued, the
\* outcome of the call the handler awaited, the registration the request found
Response(route, header, body, out, read, mwCalls, calls, outcome) ==
  Some([route |-> route, header |-> header, body |-> body, status |-> out.status,
        payload |-> out.payload, read |-> read, mwCalls |-> mwCalls, calls |-> calls,
        outcome |-> outcome, regBefore |-> registration])

Text(status, text) == [status |-> status, payload |-> [text |-> text]]

\* GET / answering 500 once the initializer has logged a failure
HealthOutcome_surfacing ==
  IF \E k \in 1..Len(initTrace) : initTrace[k][2] \in {"failed", "threw"}
  THEN Text(500, "Internal Server Error") ELSE Text(200, "OK")

HealthOutcome == Text(200, "OK")

\* GET /
Health ==
  /\ Middleware
  /\ last' = Response("GET /", None, Unread, HealthOutcome, FALSE, MwCalls, <<>>, None)
  /\ UNCHANGED <<env, registration, inflight, sends, gUser, gOut, setOkAnswered>>
  /\ sendLog' = None

\* the check made only against a present header
SecretRejects_presentonly(configuredSecret, secretHeader) ==
  TruthyStr(configuredSecret) /\ IsSome(secretHeader) /\ secretHeader # configuredSecret

\* configuredSecret && secretHeader !== configuredSecret
SecretRejects(configuredSecret, secretHeader) ==
  TruthyStr(configuredSecret) /\ secretHeader # configuredSecret

\* POST /webhook up to the await of c.req.json()
WebhookArrives(header) ==
  /\ Room
  /\ Middleware
  /\ IF SecretRejects(env.secret, header)
     THEN /\ last' = Response("POST /webhook", header, Unread,
                              Text(401, "unauthorized"), FALSE, MwCalls, <<>>, None)
          /\ UNCHANGED inflight
     ELSE /\ inflight' = inflight (+) SetToBag({[pc |-> "parsing", header |-> header,
                                                mwCalls |-> MwCalls]})
          /\ last' = None
  /\ UNCHANGED <<env, registration, sends, gUser, gOut, setOkAnswered>>
  /\ sendLog' = None

\* update.message || update.edited_message
PickMessage_editedfirst(update) ==
  IF IsSome(update.edited_message) THEN update.edited_message ELSE update.message

PickMessage(update) ==
  IF IsSome(update.message) THEN update.message ELSE update.edited_message

SendCall(chatId, text) ==
  [method |-> "sendMessage",
   arg |-> [chat_id |-> chatId, text |-> text, disable_web_page_preview |-> TRUE]]

\* the sends the handler schedules for a parsed update
RepliesFor_nochatcheck(update) ==
  LET message == PickMessage(update)
  IN IF ~IsSome(message) THEN <<>>
     ELSE <<SendCall(IF IsSome(Val(message).chat) THEN Val(Val(message).chat).id ELSE 0,
                     buildGreeting(Val(message).from))>>

RepliesFor(update) ==
  LET message == PickMessage(update)
  IN IF ~IsSome(message) \/ ~IsSome(Val(message).chat) THEN <<>>
     ELSE <<SendCall(Val(Val(message).chat).id, buildGreeting(Val(message).from))>>

\* the response to a non-JSON body given as an acknowledgement
ParseOutcome_ackinvalid(body) ==
  IF body.kind = "null" THEN Text(500, "Internal Server Error") ELSE Text(200, "ok")

\* POST /webhook from c.req.json() on: 400 when parsing fails; reading .message of
\* null throws, which the framework's error handler answers; else "ok"
ParseOutcome(body) ==
  IF body.kind = "invalid" THEN Text(400, "bad request")
  ELSE IF body.kind = "null" THEN Text(500, "Internal Server Error")
  ELSE Text(200, "ok")

WebhookParses(q, body) ==
  /\ BagIn(q, inflight)
  /\ q.pc = "parsing"
  /\ LET replies == IF body.kind = "object" THEN RepliesFor(body) ELSE <<>>
         out == ParseOutcome(body)
     IN /\ BagCardinality(sends) + Len(replies) <= MaxSends
        /\ sends' = IF replies = <<>> THEN sends
                    ELSE sends (+) SetToBag({replies[1].arg})
        /\ last' = Response("POST /webhook", q.header, body, out, TRUE, q.mwCalls,
                            replies, None)
  /\ inflight' = inflight (-) SetToBag({q})
  /\ UNCHANGED <<env, webhookInitPromise, initPc, initRuns, initTrace, registration,
                 gUser, gOut, setOkAnswered>>
  /\ sendLog' = None

\* a background sendMessage comes back or throws; either way it is only logged
SendFinishes(s, r) ==
  /\ BagIn(s, sends)
  /\ sends' = sends (-) SetToBag({s})
  /\ sendLog' = Some([chat_id |-> s.chat_id, outcome |-> OutcomeTag(r)])
  /\ UNCHANGED <<env, webhookInitPromise, initPc, initRuns, initTrace, registration,
                 inflight, gUser, gOut, setOkAnswered>>
  /\ last' = None

\* the URL built without dropping the trailing slash
HandlerSetRequest_nostrip(e) ==
  [url |-> Val(e.baseUrl) \o WebhookPath, secret_token |-> e.secret,
   max_connections |-> MaxConnections, allowed_updates |-> AllowedUpdates]

\* GET /set-webhook: the setWebhook request it sends
HandlerSetRequest(e) ==
  [url |-> StripTrailingSlash(Val(e.baseUrl)) \o WebhookPath, secret_token |-> e.secret,
   max_connections |-> MaxConnections, allowed_updates |-> AllowedUpdates]

SetCall(e) == [method |-> "setWebhook", arg |-> HandlerSetRequest(e)]

MissingBaseUrl ==
  [status |-> 400, payload |-> [ok |-> FALSE, error |-> "BASE_URL not configured"]]

\* GET /set-webhook up to the await of fetch
SetWebhookArrives ==
  /\ Room
  /\ Middleware
  /\ IF ~TruthySeq(env.baseUrl)
     THEN /\ last' = Response("GET /set-webhook", None, Unread, MissingBaseUrl, FALSE,
                              MwCalls, <<>>, None)
          /\ UNCHANGED inflight
     ELSE /\ inflight' = inflight (+) SetToBag({[pc |-> "fetching", mwCalls |-> MwCalls,
                                                calls |-> <<SetCall(env)>>]})
          /\ last' = None
  /\ UNCHANGED <<env, registration, sends, gUser, gOut, setOkAnswered>>
  /\ sendLog' = None

ProviderData(r) == [ok |-> r.ok]

\* GET /set-webhook from the await of fetch on; a fetch that throws, or a body that
\* is not JSON, leaves the handler by an exception the framework answers
SetWebhookOutcome(r) ==
  IF r = Threw THEN Text(500, "Internal Server Error")
  ELSE IF ~Succeeded(r)
       THEN [status |-> 500,
             payload |-> [ok |-> FALSE, status |-> r.status, data |-> ProviderData(r)]]
  ELSE [status |-> 200, payload |-> [ok |-> TRUE, result |-> ProviderData(r)]]

\* the provider handles the handler's setWebhook, or the call is lost; the handler
\* resumes with the outcome and answers
SetWebhookCompletes(q, r, applied) ==
  /\ BagIn(q, inflight)
  /\ q.pc = "fetching"
  /\ EffectPossible(r, applied)
  /\ registration' = IF applied THEN Some(q.calls[1].arg) ELSE registration
  /\ last' = Response("GET /set-webhook", None, Unread, SetWebhookOutcome(r), FALSE,
                      q.mwCalls, q.calls, Some(r))
  /\ inflight' = inflight (-) SetToBag({q})
  /\ setOkAnswered' = (setOkAnswered \/ SetWebhookOutcome(r).status = 200)
  /\ UNCHANGED <<env, webhookInitPromise, initPc, initRuns, initTrace, sends, gUser, gOut>>
  /\ sendLog' = None

----------------------------------------------------------------------------
(* The worker *)

Init ==
  /\ env \in Envs
  /\ webhookInitPromise = "null"
  /\ initPc = "idle"
  /\ initRuns = 0
  /\ initTrace = <<>>
  /\ registration \in {None, Some(OldRegistration)}
  /\ inflight = EmptyBag
  /\ sends = EmptyBag
  /\ sendLog = None
  /\ last = None
  /\ gUser = None
  /\ gOut = None
  /\ setOkAnswered = FALSE

Next ==
  \/ Health
  \/ \E h \in Headers : WebhookArrives(h)
  \/ \E q \in BagToSet(inflight), b \in Bodies : WebhookParses(q, b)
  \/ \E s \in BagToSet(sends), r \in Outcomes : SendFinishes(s, r)
  \/ SetWebhookArrives
  \/ \E q \in BagToSet(inflight), r \in Outcomes, a \in BOOLEAN :
       SetWebhookCompletes(q, r, a)
  \/ \E r \in Outcomes, a \in BOOLEAN : InitDeleteCompletes(r, a)
  \/ \E r \in Outcomes, a \in BOOLEAN : InitSetCompletes(r, a)

Spec == Init /\ [][Next]_vars

----------------------------------------------------------------------------
(* buildGreeting applied to every sender of the bounded set *)

GreetingInit ==
  /\ env = [secret |-> None, baseUrl |-> None, autoInit |-> None]
  /\ webhookInitPromise = "null"
  /\ initPc = "idle"
  /\ initRuns = 0
  /\ initTrace = <<>>
  /\ registration = None
  /\ inflight = EmptyBag
  /\ sends = EmptyBag
  /\ sendLog = None
  /\ last = None
  /\ gUser \in Users
  /\ gOut = None
  /\ setOkAnswered = FALSE

GreetingApply ==
  /\ gOut = None
  /\ gOut' = Some(buildGreeting(gUser))
  /\ UNCHANGED <<env, webhookInitPromise, initPc, initRuns, initTrace, registration,
                 inflight, sends, sendLog, last, gUser, setOkAnswered>>

GreetingNext == GreetingApply

GreetingSpec == GreetingInit /\ [][GreetingNext]_vars

----------------------------------------------------------------------------
(* Properties *)

Answered == IsSome(last)
L == Val(last)
WebhookAnswered == Answered /\ L.route = "POST /webhook"

\* a shared secret is configured: WEBHOOK_SECRET_TOKEN is set and not empty
SecretConfigured == env.secret # None /\ env.secret # Some("")

\* C1: POST /webhook is answered 401 exactly when a shared secret is configured and
\* the header is absent or differs from it; a rejected request has its body unread
\* and no send scheduled, and a request past the check carries no mismatch.
C1_SecretGate ==
  /\ WebhookAnswered =>
       /\ (L.status = 401) <=> (SecretConfigured /\ L.header # env.secret)
       /\ L.status = 401 => ~L.read /\ L.body = Unread /\ L.calls = <<>>
       /\ ~SecretConfigured => L.status # 401
  /\ \A q \in BagToSet(inflight) :
       q.pc = "parsing" => ~(SecretConfigured /\ q.header # env.secret)

C1_Witness ==
  /\ WebhookAnswered /\ L.status = 401 /\ L.header = None
  /\ env.secret = Some("S1") /\ sends = EmptyBag

\* C2: a POST /webhook request past the secret check whose body fails JSON parsing
\* is answered 400, and no send is scheduled for it.
C2_InvalidJson400 ==
  (WebhookAnswered /\ L.read /\ L.body = InvalidJson) =>
    /\ L.status = 400
    /\ L.calls = <<>>

C2_Witness ==
  WebhookAnswered /\ L.read /\ L.body = InvalidJson /\ L.status = 400 /\ sends = EmptyBag

\* C3: every POST /webhook request, whatever its header and body, is answered 200,
\* 400 or 401.
C3_StatusIn200_400_401 == WebhookAnswered => L.status \in {200, 400, 401}

NoMessage(body) ==
  body.kind = "object" /\ body.message = None /\ body.edited_message = None
NoChat(body) ==
  /\ body.kind = "object"
  /\ \/ body.message # None /\ Val(body.message).chat = None
     \/ body.message = None /\ body.edited_message # None
        /\ Val(body.edited_message).chat = None

Present(x) == x # None /\ x # Some(<<>>)

\* the present tokens in the order @username, first name, last name, one space
\* between neighbours; <<>> when none is present
Glued(u) ==
  LET U == <<"@">> \o Val(u.username)
      F == Val(u.first_name)
      N == Val(u.last_name)
      SP == <<" ">>
      pu == Present(u.username)
      pf == Present(u.first_name)
      pn == Present(u.last_name)
  IN CASE pu /\ pf /\ pn -> U \o SP \o F \o SP \o N
       [] pu /\ pf /\ ~pn -> U \o SP \o F
       [] pu /\ ~pf /\ pn -> U \o SP \o N
       [] pu /\ ~pf /\ ~pn -> U
       [] ~pu /\ pf /\ pn -> F \o SP \o N
       [] ~pu /\ pf /\ ~pn -> F
       [] ~pu /\ ~pf /\ pn -> N
       [] OTHER -> <<>>

AllSpaces(s) == \A k \in 1..Len(s) : s[k] = " "

\* t is s without its leading and trailing spaces
IsStripped(t, s) ==
  /\ t = <<>> \/ (t[1] # " " /\ t[Len(t)] # " ")
  /\ \E a, b \in 0..Len(s) :
       /\ a + Len(t) + b = Len(s)
       /\ t = SubSeq(s, a + 1, a + Len(t))
       /\ AllSpaces(SubSeq(s, 1, a))
       /\ AllSpaces(SubSeq(s, Len(s) - b + 1, Len(s)))

\* C5 as stated: "Hello " followed by the present tokens in the fixed order, one
\* space apart; "Hello there" when the sender or all three fields are absent.
C5_GreetingTokens ==
  gOut # None =>
    Val(gOut) = IF gUser = None \/ Glued(Val(gUser)) = <<>> THEN HelloThere
                ELSE HelloPrefix \o Glued(Val(gUser))

\* C5 amended: the glued tokens lose their leading and trailing whitespace before
\* "Hello " is put in front, and "Hello there" is also the result when nothing is
\* left of them.
C5_GreetingTrimmed ==
  gOut # None =>
    IF gUser = None THEN Val(gOut) = HelloThere
    ELSE \/ /\ IsStripped(<<>>, Glued(Val(gUser)))
            /\ Val(gOut) = HelloThere
         \/ /\ Len(Val(gOut)) > Len(HelloPrefix)
            /\ SubSeq(Val(gOut), 1, Len(HelloPrefix)) = HelloPrefix
            /\ IsStripped(SubSeq(Val(gOut), Len(HelloPrefix) + 1, Len(Val(gOut))),
                          Glued(Val(gUser)))

C5_Witness ==
  /\ gUser = Some([username |-> Some(<<"a">>), first_name |-> Some(<<"B">>),
                   last_name |-> Some(<<"C", " ">>)])
  /\ gOut = Some(HelloPrefix \o <<"@", "a", " ", "B", " ", "C">>)

\* the message an accepted update is answered for: message, or edited_message
\* when message is absent
Carried(body) == IF body.message # None THEN Val(body.message) ELSE Val(body.edited_message)
CarriesChat(body) ==
  /\ body.kind = "object"
  /\ body.message # None \/ body.edited_message # None
  /\ Carried(body).chat # None

\* C6: an accepted Update carrying a message (or, message absent, an edited_message)
\* with a chat has exactly one sendMessage issued, to that chat's id with the
\* greeting of its sender, and is answered 200 "ok" while that call is still in
\* flight; no step that ends a send produces or changes a response.
C6_OneUnawaitedSend ==
  /\ (WebhookAnswered /\ L.read /\ CarriesChat(L.body)) =>
       /\ L.status = 200 /\ L.payload = [text |-> "ok"]
       /\ Len(L.calls) = 1
       /\ L.calls[1].method = "sendMessage"
       /\ L.calls[1].arg.chat_id = Val(Carried(L.body).chat).id
       /\ L.calls[1].arg.text = buildGreeting(Carried(L.body).from)
       /\ BagIn(L.calls[1].arg, sends)
       /\ L.outcome = None
  /\ sendLog # None => last = None

C6_Witness ==
  /\ WebhookAnswered /\ L.status = 200 /\ L.body.kind = "object"
  /\ L.body.message = None /\ L.body.edited_message # None
  /\ Len(L.calls) = 1 /\ L.calls[1].arg.chat_id = 3
  /\ L.calls[1].arg.text = HelloThere
  /\ BagIn(L.calls[1].arg, sends)

\* AUTO_WEBHOOK_INIT equals "true" whatever the case of its letters
EqualsTrueAnyCase(flag) ==
  /\ flag # None
  /\ Len(Val(flag)) = 4
  /\ Val(flag)[1] \in {"t", "T"} /\ Val(flag)[2] \in {"r", "R"}
  /\ Val(flag)[3] \in {"u", "U"} /\ Val(flag)[4] \in {"e", "E"}

Issued(method) ==
  Cardinality({k \in 1..Len(initTrace) : initTrace[k] = <<method, "issued">>})

\* C7: configureWebhook is entered only when AUTO_WEBHOOK_INIT equals "true"
\* case-insensitively, and at most once, over every sequence and interleaving of
\* requests; the latch stays set once the initializer has been started.
C7_InitAtMostOnce ==
  /\ initRuns <= 1
  /\ Issued("deleteWebhook") = initRuns
  /\ initRuns = 1 <=> webhookInitPromise = "promise"
  /\ initRuns = 1 => EqualsTrueAnyCase(env.autoInit)
  /\ (Answered /\ L.mwCalls # <<>>) => initRuns = 1

\* a request served after the initializer finished with a failed deleteWebhook,
\* while another request is still at an await
C7_Witness ==
  /\ initRuns = 1 /\ initPc = "done" /\ Len(initTrace) >= 3
  /\ env.autoInit = Some(<<"T", "r", "U", "E">>)
  /\ initTrace[2] = <<"deleteWebhook", "threw">>
  /\ Answered /\ L.mwCalls = <<>>
  /\ BagCardinality(inflight) >= 1

\* the status and body each route answers with, from the request, the
\* configuration and the outcome of the call the handler itself awaited
Expected(r) ==
  CASE r.route = "GET /" -> Text(200, "OK")
    [] r.route = "POST /webhook" ->
         IF ~r.read THEN Text(401, "unauthorized")
         ELSE IF r.body = InvalidJson THEN Text(400, "bad request")
         ELSE IF r.body = JsonNull THEN Text(500, "Internal Server Error")
         ELSE Text(200, "ok")
    [] r.route = "GET /set-webhook" ->
         IF r.outcome = None
         THEN [status |-> 400, payload |-> [ok |-> FALSE, error |-> "BASE_URL not configured"]]
         ELSE IF Val(r.outcome) = Threw THEN Text(500, "Internal Server Error")
         ELSE IF Val(r.outcome) = ProviderOk
              THEN [status |-> 200, payload |-> [ok |-> TRUE, result |-> [ok |-> TRUE]]]
         ELSE [status |-> 500,
               payload |-> [ok |-> FALSE, status |-> Val(r.outcome).status,
                            data |-> [ok |-> FALSE]]]

\* C8: every response is the one its route gives for the request, whatever the
\* initializer is doing or has logged, and the request whose middleware starts the
\* initializer is answered by GET / while the deleteWebhook is still in flight.
C8_InitNeverAltersResponses ==
  /\ Answered => [status |-> L.status, payload |-> L.payload] = Expected(L)
  /\ (Answered /\ L.route = "GET /" /\ L.mwCalls # <<>>) => initPc = "del_sent"
  /\ (Answered /\ L.route = "GET /set-webhook") =>
       (L.outcome = None <=> ~(env.baseUrl # None /\ env.baseUrl # Some(<<>>)))

C8_Witness ==
  /\ Answered /\ L.route = "GET /" /\ L.status = 200
  /\ initPc = "done" /\ Len(initTrace) = 4
  /\ initTrace[2] = <<"deleteWebhook", "threw">>
  /\ initTrace[4] = <<"setWebhook", "failed">>

BaseUrlConfigured == env.baseUrl # None /\ env.baseUrl # Some(<<>>)

\* u is BASE_URL without a trailing slash, followed by "/webhook"
IsWebhookUrl(u) ==
  \E b \in {Val(env.baseUrl)} \cup {SubSeq(Val(env.baseUrl), 1, Len(Val(env.baseUrl)) - 1)} :
    /\ u = b \o <<"/", "w", "e", "b", "h", "o", "o", "k">>
    /\ \/ b = Val(env.baseUrl) /\ (b = <<>> \/ b[Len(b)] # "/")
       \/ b \o <<"/">> = Val(env.baseUrl)

IsTheSetRequest(c) ==
  /\ c.method = "setWebhook"
  /\ IsWebhookUrl(c.arg.url)
  /\ c.arg.secret_token = env.secret
  /\ c.arg.allowed_updates = <<"message", "edited_message">>

SetWebhookAnswered == Answered /\ L.route = "GET /set-webhook"

DeleteDone == {k \in 1..Len(initTrace) :
                 initTrace[k][1] = "deleteWebhook" /\ initTrace[k][2] # "issued"}
InitBaseUrlConfigured ==
  /\ env.baseUrl # None
  /\ Val(env.baseUrl) # <<>> /\ Val(env.baseUrl) # <<"/">>

\* C10 as stated, last part: with BASE_URL not configured the initializer issues
\* deleteWebhook, skips setWebhook and leaves no webhook registered.
C10_NothingRegistered ==
  (initPc = "done" /\ ~BaseUrlConfigured) =>
    /\ Issued("deleteWebhook") = 1 /\ Issued("setWebhook") = 0
    /\ registration = None

\* C10 amended: setWebhook is issued only after the deleteWebhook attempt has
\* completed, also after one that failed or threw; with BASE_URL not configured
\* deleteWebhook is still issued and setWebhook is skipped, and no webhook is left
\* registered when that deleteWebhook succeeded.
C10_DeleteThenSet ==
  /\ \A k \in 1..Len(initTrace) :
       initTrace[k] = <<"setWebhook", "issued">> =>
         /\ k > 1 /\ k - 1 \in DeleteDone
         /\ InitBaseUrlConfigured
  /\ \A k \in DeleteDone :
       /\ k > 1 /\ initTrace[k - 1] = <<"deleteWebhook", "issued">>
       /\ Len(initTrace) > k
       /\ initTrace[k + 1] = <<"setWebhook",
                               IF InitBaseUrlConfigured THEN "issued" ELSE "skipped">>
  /\ initPc = "set_sent" <=>
       (Len(initTrace) = 3 /\ initTrace[3] = <<"setWebhook", "issued">>)
  /\ (initPc = "done" /\ ~BaseUrlConfigured) =>
       /\ Issued("deleteWebhook") = 1 /\ Issued("setWebhook") = 0
       /\ initTrace[2] = <<"deleteWebhook", "ok">> => registration = None

\* setWebhook issued after a deleteWebhook that threw
C10_Witness ==
  /\ Len(initTrace) >= 3
  /\ initTrace[2] = <<"deleteWebhook", "threw">>
  /\ initTrace[3] = <<"setWebhook", "issued">>
  /\ registration = Some(OldRegistration)

\* every background task has finished and no handler is at an await
Quiescent ==
  /\ initPc \in {"idle", "done"}
  /\ sends = EmptyBag
  /\ inflight = EmptyBag

\* C11: whenever GET /set-webhook has answered {ok: true} and all background work
\* of the process has finished, the provider's webhook is registered at
\* BASE_URL/webhook, in every interleaving of the handler's setWebhook with the
\* initializer's deleteWebhook and setWebhook, also when the initializer's
\* setWebhook fails.  Stated for a BASE_URL that is more than a bare slash, with
\* which the handler and the initializer send the same setWebhook request.
C11_RegisteredAfterOk ==
  (setOkAnswered /\ Quiescent /\ InitBaseUrlConfigured) =>
    /\ registration # None
    /\ IsWebhookUrl(Val(registration).url)

====
